---------------------------- MODULE Spec2Model ----------------------------
(* Model of the flight-search endpoint (app/api/flight-search/route.js):   *)
(* the process-wide OAuth token cache, the POST handler's pipeline with    *)
(* its await points as interleaving points, and the offer normalisation.   *)
(* The second copy of the route in the repository differs in the base URL  *)
(* and in the CORS helper only.  The CORS headers and the OPTIONS handler  *)
(* read and write no state of the pipeline and are left out.               *)
(*                                                                         *)
(* Conventions.  JSON / JS values are records of one shape,                *)
(*   [t |-> type, s |-> characters, n |-> tenths, a |-> elements,          *)
(*    o |-> properties],                                                   *)
(* so a string is a sequence of one-character strings (toUpperCase, slice  *)
(* and trim act on it) and a number is a fixed-point value with one        *)
(* fractional digit (2 is n = 20, 7.5 is n = 75).  Durations in hours are  *)
(* kept in tenths as well.  Times are epoch milliseconds.                  *)
EXTENDS Integers, Sequences, FiniteSets, TLC

VARIABLES
    now,         \* Date.now()
    tokenCache,  \* let tokenCache = { token, expiresAt }
    lastStore,   \* history: the credential exchange that last wrote the cache
    req          \* per in-flight POST invocation: position and locals

vars == <<now, tokenCache, lastStore, req>>

-----------------------------------------------------------------------------
(* Bounds of the model *)

\* the clock advances at most this many steps of TickMs
MaxTicks == 4
\* the provider's data list holds at most this many offers (normaliser runs)
MaxOffers == 2

\* the safety margin of the token cache, in milliseconds (60_000)
MarginMs == 60000

\* granularity of the modelled clock: half the margin
TickMs == MarginMs \div 2

\* concurrent POST invocations
Requests == {1, 2}

-----------------------------------------------------------------------------
(* JS values *)

\* a value: t its type, s a string's characters, n a number's tenths,
\* a an array's elements, o an object's properties
Undefined == [t |-> "undefined", s |-> <<>>, n |-> 0, a |-> <<>>, o |-> <<>>]
Null == [t |-> "null", s |-> <<>>, n |-> 0, a |-> <<>>, o |-> <<>>]
Str(chars) == [t |-> "string", s |-> chars, n |-> 0, a |-> <<>>, o |-> <<>>]
Num(tenths) == [t |-> "number", s |-> <<>>, n |-> tenths, a |-> <<>>, o |-> <<>>]
Arr(elems) == [t |-> "array", s |-> <<>>, n |-> 0, a |-> elems, o |-> <<>>]
Obj(props) == [t |-> "object", s |-> <<>>, n |-> 0, a |-> <<>>, o |-> props]

\* !v ("" and 0 are falsy; arrays and objects are truthy)
Falsy(v) ==
    \/ v.t \in {"undefined", "null"}
    \/ v.t = "string" /\ v.s = <<>>
    \/ v.t = "number" /\ v.n = 0

\* a || b
OrElse(a, b) == IF Falsy(a) THEN b ELSE a

\* destructuring default: `x = d` applies only when the property is undefined
Default(v, d) == IF v.t = "undefined" THEN d ELSE v

Whitespace == {" ", "\t", "\n"}

RECURSIVE TrimLeft(_)
TrimLeft(s) ==
    IF s # <<>> /\ Head(s) \in Whitespace THEN TrimLeft(Tail(s)) ELSE s

RECURSIVE TrimRight(_)
TrimRight(s) ==
    IF s # <<>> /\ s[Len(s)] \in Whitespace
    THEN TrimRight(SubSeq(s, 1, Len(s) - 1))
    ELSE s

\* String.prototype.trim
Trim(s) == TrimRight(TrimLeft(s))

LowerCase == <<"a","b","c","d","e","f","g","h","i","j","k","l","m",
               "n","o","p","q","r","s","t","u","v","w","x","y","z">>
UpperCase == <<"A","B","C","D","E","F","G","H","I","J","K","L","M",
               "N","O","P","Q","R","S","T","U","V","W","X","Y","Z">>

UpperChar(c) ==
    IF \E i \in 1..Len(LowerCase) : LowerCase[i] = c
    THEN UpperCase[CHOOSE i \in 1..Len(LowerCase) : LowerCase[i] = c]
    ELSE c

\* String.prototype.toUpperCase
ToUpperCase(s) == [i \in 1..Len(s) |-> UpperChar(s[i])]

\* String.prototype.slice(0, k)
Slice0(s, k) == SubSeq(s, 1, IF Len(s) < k THEN Len(s) ELSE k)

Digit == <<"0","1","2","3","4","5","6","7","8","9">>

RECURSIVE Digits(_)
Digits(k) ==
    IF k < 10 THEN <<Digit[k + 1]>>
    ELSE Digits(k \div 10) \o <<Digit[(k % 10) + 1]>>

\* String(v); an array is its elements joined by ",", null and undefined
\* elements giving the empty string
RECURSIVE String(_)
RECURSIVE JoinFrom(_, _)
JoinFrom(elems, i) ==
    IF i > Len(elems) THEN <<>>
    ELSE (IF i > 1 THEN <<",">> ELSE <<>>)
         \o (IF elems[i].t \in {"undefined", "null"} THEN <<>> ELSE String(elems[i]))
         \o JoinFrom(elems, i + 1)

String(v) ==
    CASE v.t = "string" -> v.s
      [] v.t = "number" ->
            IF v.n % 10 = 0 THEN Digits(v.n \div 10)
            ELSE Digits(v.n \div 10) \o <<".", Digit[(v.n % 10) + 1]>>
      [] v.t = "null" -> <<"n","u","l","l">>
      [] v.t = "undefined" -> <<"u","n","d","e","f","i","n","e","d">>
      [] v.t = "array" -> JoinFrom(v.a, 1)
      [] OTHER -> <<"[","o","b","j","e","c","t"," ","O","b","j","e","c","t","]">>

\* v?.key: undefined on undefined and null, and for a property not there
Get(v, key) ==
    IF v.t = "object" /\ key \in DOMAIN v.o THEN v.o[key] ELSE Undefined

\* a ?? b
Coalesce(a, b) == IF a.t \in {"undefined", "null"} THEN b ELSE a

-----------------------------------------------------------------------------
(* DACH whitelist of departure airports *)

DACH_IATA == {
    \* DE
    <<"B","E","R">>, <<"B","R","E">>, <<"C","G","N">>, <<"D","T","M">>,
    <<"D","R","S">>, <<"D","U","S">>, <<"F","R","A">>, <<"H","H","N">>,
    <<"F","D","H">>, <<"H","A","M">>, <<"H","A","J">>, <<"F","K","B">>,
    <<"L","E","J">>, <<"F","M","M">>, <<"M","U","C">>, <<"F","M","O">>,
    <<"N","U","E">>, <<"P","A","D">>, <<"S","T","R">>, <<"N","R","N">>,
    \* AT
    <<"G","R","Z">>, <<"I","N","N">>, <<"K","L","U">>, <<"L","N","Z">>,
    <<"S","Z","G">>, <<"V","I","E">>,
    \* CH
    <<"B","S","L">>, <<"B","R","N">>, <<"G","V","A">>, <<"L","U","G">>,
    <<"S","I","R">>, <<"A","C","H">>, <<"Z","R","H">> }

-----------------------------------------------------------------------------
(* Token cache *)

\* the guard without the safety margin
CacheValidNoMargin(cache, t) ==
    ~Falsy(cache.token) /\ t < cache.expiresAt

\* the guard of getAmadeusToken's no-fetch path
CacheValid(cache, t) ==
    ~Falsy(cache.token) /\ t < cache.expiresAt - MarginMs

\* the expiry with the lifetime taken as milliseconds
StoreTokenSeconds(data, t) ==
    [token |-> Get(data, "access_token"),
     expiresAt |-> t + OrElse(Get(data, "expires_in"), Num(0)).n \div 10]

\* the two assignments after a successful exchange, at time t:
\* expires_in is in seconds, a number of the data (tenths) or absent
StoreToken(data, t) ==
    [token |-> Get(data, "access_token"),
     expiresAt |-> t + (OrElse(Get(data, "expires_in"), Num(0)).n * 1000) \div 10]

-----------------------------------------------------------------------------
(* Duration parser *)

IsDigit(c) == \E i \in 1..Len(Digit) : Digit[i] = c

DigitValue(c) == (CHOOSE i \in 1..Len(Digit) : Digit[i] = c) - 1

\* parseInt of a run of decimal digits
RECURSIVE ParseInt(_)
ParseInt(ds) ==
    IF ds = <<>> THEN 0
    ELSE 10 * ParseInt(SubSeq(ds, 1, Len(ds) - 1)) + DigitValue(ds[Len(ds)])

\* the end of the maximal run of digits of s that starts at i
RECURSIVE RunEnd(_, _)
RunEnd(s, i) ==
    IF i < Len(s) /\ IsDigit(s[i + 1]) THEN RunEnd(s, i + 1) ELSE i

\* iso.match(/(\d+)<mark>/): the starts of the digit runs that mark follows
MatchStarts(s, mark) ==
    {i \in 1..Len(s) :
        /\ IsDigit(s[i])
        /\ RunEnd(s, i) < Len(s)
        /\ s[RunEnd(s, i) + 1] = mark}

\* (iso.match(/(\d+)<mark>/) || [])[1], parsed; -1 when there is no match
Captured(s, mark) ==
    IF MatchStarts(s, mark) = {} THEN -1
    ELSE LET i == CHOOSE k \in MatchStarts(s, mark) :
                      \A j \in MatchStarts(s, mark) : k <= j
         IN  ParseInt(SubSeq(s, i, RunEnd(s, i)))

StartsWithPT(s) == Len(s) >= 2 /\ s[1] = "P" /\ s[2] = "T"

\* isoDurationToHours applies to a falsy value or a string; any other value
\* has no startsWith
DurationThrows(iso) == ~Falsy(iso) /\ iso.t # "string"

\* isoDurationToHours, in tenths of an hour:
\* Math.round((h + m / 60) * 10) = 10 h + floor(m / 6 + 1 / 2)
\* in exact arithmetic; the durations drawn below have no tie (m / 6 ending
\* in .5) that the doubles of the code would round the other way
isoDurationToHours(iso) ==
    IF Falsy(iso) \/ ~StartsWithPT(iso.s) THEN 0
    ELSE LET h == Captured(iso.s, "H")
             m == Captured(iso.s, "M")
         IN  10 * (IF h >= 0 THEN h ELSE 0)
               + (IF m >= 0 THEN (m + 3) \div 6 ELSE 0)

-----------------------------------------------------------------------------
(* Number conversion *)

NaN == [nan |-> TRUE, n |-> 0]
Finite(k) == [nan |-> FALSE, n |-> k]

AllDigits(s) == s # <<>> /\ \A i \in 1..Len(s) : IsDigit(s[i])

\* Number of a string, in tenths: "", "12" and "12.5" are numbers; every
\* other string the model draws is not one
StringToNumber(s) ==
    LET u == Trim(s) IN
    CASE u = <<>> -> Finite(0)
      [] AllDigits(u) -> Finite(10 * ParseInt(u))
      [] Len(u) >= 3 /\ u[Len(u) - 1] = "." /\ IsDigit(u[Len(u)])
            /\ AllDigits(SubSeq(u, 1, Len(u) - 2)) ->
            Finite(10 * ParseInt(SubSeq(u, 1, Len(u) - 2)) + DigitValue(u[Len(u)]))
      [] OTHER -> NaN

\* Number(v)
Number(v) ==
    CASE v.t = "number" -> Finite(v.n)
      [] v.t = "null" -> Finite(0)
      [] v.t = "undefined" -> NaN
      [] OTHER -> StringToNumber(String(v))

-----------------------------------------------------------------------------
(* Offer normaliser *)

\* a literal text, kept as one piece (never sliced, never empty)
Lit(text) == Str(<<text>>)

\* (x || []).map(...) needs an array once x is truthy
MapThrows(x) == ~Falsy(x) /\ x.t # "array"

\* the elements (x || []).map(...) runs over
Elems(x) == IF Falsy(x) THEN <<>> ELSE x.a

\* the segment literal of the inner map
NormalizeSegment(seg) ==
    Obj([from |-> Get(Get(seg, "departure"), "iataCode"),
         to |-> Get(Get(seg, "arrival"), "iataCode"),
         depart |-> Get(Get(seg, "departure"), "at"),
         arrive |-> Get(Get(seg, "arrival"), "at"),
         carrier |-> Get(seg, "carrierCode"),
         number |-> Get(seg, "number")])

\* the fault one itinerary raises, "" when it raises none
ItineraryFault(it) ==
    CASE DurationThrows(Get(it, "duration")) -> "iso.startsWith is not a function"
      [] MapThrows(Get(it, "segments")) -> "(intermediate value).map is not a function"
      [] OTHER -> ""

NormalizeItinerary(it) ==
    LET segs == Elems(Get(it, "segments")) IN
    Obj([durationHours |-> Num(isoDurationToHours(Get(it, "duration"))),
         segments |-> Arr([i \in 1..Len(segs) |-> NormalizeSegment(segs[i])])])

\* flatMap(it => (it?.segments || []).map(s => s?.carrierCode))
RECURSIVE CarrierCodes(_)
CarrierCodes(its) ==
    IF its = <<>> THEN <<>>
    ELSE LET segs == Elems(Get(Head(its), "segments")) IN
         [i \in 1..Len(segs) |-> Get(segs[i], "carrierCode")]
            \o CarrierCodes(Tail(its))

\* .filter(Boolean)
RECURSIVE FilterBoolean(_)
FilterBoolean(xs) ==
    IF xs = <<>> THEN <<>>
    ELSE (IF Falsy(Head(xs)) THEN <<>> ELSE <<Head(xs)>>) \o FilterBoolean(Tail(xs))

\* Array.from(new Set(xs)): first occurrences, in order
RECURSIVE Dedupe(_)
Dedupe(xs) ==
    IF xs = <<>> THEN <<>>
    ELSE LET front == Dedupe(SubSeq(xs, 1, Len(xs) - 1))
             x == xs[Len(xs)]
         IN  IF \E i \in 1..Len(front) : front[i] = x THEN front ELSE front \o <<x>>

\* the receiver of .concat: validatingAirlineCodes || []
ConcatReceiver(offer) == OrElse(Get(offer, "validatingAirlineCodes"), Arr(<<>>))

\* arrays and strings have concat, numbers and plain objects have not
ConcatThrows(offer) == ConcatReceiver(offer).t \notin {"array", "string"}

\* what the Set is built from: an array receiver is extended by the carrier
\* codes; a string receiver is extended by their text and read per character
AirlineCandidates(offer) ==
    LET recv == ConcatReceiver(offer)
        carriers == FilterBoolean(CarrierCodes(Elems(Get(offer, "itineraries"))))
    IN  IF recv.t = "array" THEN recv.a \o carriers
        ELSE LET chars == recv.s \o JoinFrom(carriers, 1)
             IN  [i \in 1..Len(chars) |-> Str(<<chars[i]>>)]

Airlines(offer) == Dedupe(AirlineCandidates(offer))

\* itineraries.reduce((sum, it) => sum + (it.durationHours || 0), 0)
RECURSIVE SumDurations(_)
SumDurations(its) ==
    IF its = <<>> THEN 0
    ELSE OrElse(Get(Head(its), "durationHours"), Num(0)).n + SumDurations(Tail(its))

\* the fault the map callback raises on one offer, "" when it raises none
OfferFault(offer) ==
    LET raw == Get(offer, "itineraries")
        its == Elems(raw)
        bad == {i \in 1..Len(its) : ItineraryFault(its[i]) # ""}
    IN  CASE MapThrows(raw) -> "(intermediate value).map is not a function"
          [] bad # {} ->
                ItineraryFault(its[CHOOSE i \in bad : \A j \in bad : i <= j])
          [] ConcatThrows(offer) -> "(intermediate value).concat is not a function"
          [] OTHER -> ""

\* the map callback on one offer that raises no fault
NormalizeOffer(offer, currency) ==
    LET its == Elems(Get(offer, "itineraries"))
        itineraries == [i \in 1..Len(its) |-> NormalizeItinerary(its[i])]
    IN  Obj([price |-> Coalesce(Get(Get(offer, "price"), "total"), Null),
             currency |-> Coalesce(Get(Get(offer, "price"), "currency"), currency),
             totalDurationHours |-> Num(SumDurations(itineraries)),
             itineraries |-> Arr(itineraries),
             airlines |-> Arr(Airlines(offer))])

\* the fault (data?.data || []).map(...) raises, "" when it raises none
ItemsFault(data) ==
    LET raw == Get(data, "data")
        offers == Elems(raw)
        bad == {i \in 1..Len(offers) : OfferFault(offers[i]) # ""}
    IN  CASE MapThrows(raw) -> "(intermediate value).map is not a function"
          [] bad # {} -> OfferFault(offers[CHOOSE i \in bad : \A j \in bad : i <= j])
          [] OTHER -> ""

Items(data, currency) ==
    LET offers == Elems(Get(data, "data")) IN
    [i \in 1..Len(offers) |-> NormalizeOffer(offers[i], currency)]

\* maxFlightHours && Number(maxFlightHours) > 0
FilterApplies(maxFlightHours) ==
    /\ ~Falsy(maxFlightHours)
    /\ ~Number(maxFlightHours).nan
    /\ Number(maxFlightHours).n > 0

\* the comparison made strict
KeepsBelow(item, maxFlightHours) ==
    Get(item, "totalDurationHours").n < Number(maxFlightHours).n

\* x.totalDurationHours <= Number(maxFlightHours)
Keeps(item, maxFlightHours) ==
    Get(item, "totalDurationHours").n <= Number(maxFlightHours).n

RECURSIVE FilterItems(_, _)
FilterItems(items, maxFlightHours) ==
    IF items = <<>> THEN <<>>
    ELSE (IF Keeps(Head(items), maxFlightHours) THEN <<Head(items)>> ELSE <<>>)
            \o FilterItems(Tail(items), maxFlightHours)

Filtered(items, maxFlightHours) ==
    IF FilterApplies(maxFlightHours) THEN FilterItems(items, maxFlightHours)
    ELSE items

-----------------------------------------------------------------------------
(* POST handler: the synchronous pieces *)

\* const bad = v => v === undefined || v === null
\*                  || (typeof v === "string" && v.trim() === "")
bad(v) ==
    \/ v.t \in {"undefined", "null"}
    \/ v.t = "string" /\ Trim(v.s) = <<>>

\* destructuring `await request.json()`: null and undefined have no properties
DestructureThrows(body) == body.t \in {"undefined", "null"}

\* the destructured locals, with the defaults adults = 1 and currency = "EUR"
Locals(body) ==
    [origin |-> Get(body, "origin"),
     destination |-> Get(body, "destination"),
     departDate |-> Get(body, "departDate"),
     returnDate |-> Get(body, "returnDate"),
     adults |-> Default(Get(body, "adults"), Num(10)),
     currency |-> Default(Get(body, "currency"), Lit("EUR")),
     maxFlightHours |-> Get(body, "maxFlightHours")]

NoLocals == Locals(Obj(<<>>))

\* if (bad(origin) || bad(destination) || bad(departDate) || !adults)
MissingFields(loc) ==
    bad(loc.origin) \/ bad(loc.destination) \/ bad(loc.departDate) \/ Falsy(loc.adults)

\* String(x).toUpperCase().slice(0, 3)
Code3(v) == Slice0(ToUpperCase(String(v)), 3)

ORI(loc) == Code3(loc.origin)
DST(loc) == Code3(loc.destination)

\* the whitelist applied to the trimmed origin
OriginAllowedTrimmed(loc) ==
    Slice0(Trim(ToUpperCase(String(loc.origin))), 3) \in DACH_IATA

\* if (!DACH_IATA.has(ORI))
OriginAllowed(loc) == ORI(loc) \in DACH_IATA

\* Math.min(Math.max(Number(adults) || 1, 1), 9), in tenths
ClampAdults(adults) ==
    LET k == Number(adults)
        v == IF k.nan \/ k.n = 0 THEN 10 ELSE k.n
    IN  IF v < 10 THEN 10 ELSE IF v > 90 THEN 90 ELSE v

\* the query parameters of GET /v2/shopping/flight-offers
Params(loc) ==
    LET fixed == [originLocationCode |-> Str(ORI(loc)),
                  destinationLocationCode |-> Str(DST(loc)),
                  departureDate |-> loc.departDate,
                  adults |-> Str(String(Num(ClampAdults(loc.adults)))),
                  currencyCode |-> OrElse(loc.currency, Lit("EUR")),
                  max |-> Lit("20"),
                  nonStop |-> Lit("false")]
    IN  IF Falsy(loc.returnDate) THEN Obj(fixed)
        ELSE Obj([k \in DOMAIN fixed \cup {"returnDate"} |->
                    IF k = "returnDate" THEN loc.returnDate ELSE fixed[k]])

\* NextResponse.json(body, { status })
JsonResponse(body, status) == [status |-> status, body |-> body]

NoResponse == JsonResponse(Undefined, 0)

MissingFieldsResponse ==
    JsonResponse(Obj([error |-> Lit("Missing required fields")]), 400)

OriginNotAllowedResponse ==
    JsonResponse(Obj([error |-> Lit("Origin not allowed (DACH only)")]), 400)

\* the catch block: String(e?.message || e), for a fault with that message
ServerErrorResponse(message) ==
    JsonResponse(Obj([error |-> Lit("Server error"), details |-> message]), 500)

\* throw new Error("Amadeus OAuth failed: " + txt)
OAuthFailedMessage(txt) == Str(<<"Amadeus OAuth failed: ">> \o txt.s)

\* the provider's failure reported as a bad gateway
ApiErrorResponseBadGateway(status, txt) ==
    JsonResponse(Obj([error |-> Lit("Amadeus API error"), details |-> txt]), 502)

\* the offer search answered with a non-success status
ApiErrorResponse(status, txt) ==
    JsonResponse(Obj([error |-> Lit("Amadeus API error"), details |-> txt]), status)

\* new Date().toISOString()
IsoTimestamp(t) == Str(<<"T">> \o Digits(t) \o <<"Z">>)

\* the success envelope
SuccessResponse(loc, data, t) ==
    LET filtered == Filtered(Items(data, loc.currency), loc.maxFlightHours) IN
    JsonResponse(
        Obj([query |-> Obj([origin |-> Str(ORI(loc)),
                            destination |-> Str(DST(loc)),
                            departDate |-> loc.departDate,
                            returnDate |-> OrElse(loc.returnDate, Null),
                            adults |-> loc.adults,
                            currency |-> loc.currency,
                            maxFlightHours |-> OrElse(loc.maxFlightHours, Null)]),
             fetchedAt |-> IsoTimestamp(t),
             count |-> Num(10 * Len(filtered)),
             results |-> Arr(filtered)]),
        200)

-----------------------------------------------------------------------------
(* Inputs: request bodies and the provider's answers *)

Date1 == Str(<<"2","0","2","5","-","0","6","-","0","1">>)
Date2 == Str(<<"2","0","2","5","-","0","6","-","0","8">>)

Bodies == {
    \* JSON null
    Null,
    \* no origin
    Obj([destination |-> Str(<<"P","M","I">>), departDate |-> Date1]),
    \* a blank origin
    Obj([origin |-> Str(<<" "," ">>), destination |-> Str(<<"P","M","I">>),
         departDate |-> Date1]),
    \* adults: 0
    Obj([origin |-> Str(<<"S","T","R">>), destination |-> Str(<<"P","M","I">>),
         departDate |-> Date1, adults |-> Num(0)]),
    \* origins outside the whitelist: a string, a short string, a padded
    \* string, a number
    Obj([origin |-> Str(<<"v","i">>), destination |-> Str(<<"V","I","E">>),
         departDate |-> Date1]),
    Obj([origin |-> Str(<<"J","F","K">>), destination |-> Str(<<"F","R","A">>),
         departDate |-> Date1]),
    Obj([origin |-> Str(<<" ","f","r","a">>), destination |-> Str(<<"x">>),
         departDate |-> Date1]),
    Obj([origin |-> Num(1230), destination |-> Str(<<"P","M","I">>),
         departDate |-> Date1]),
    \* an allowed origin, once upper-cased and cut to three characters
    Obj([origin |-> Str(<<"Z","r","h","x">>), destination |-> Str(<<"p","m","i","!">>),
         departDate |-> Date1, returnDate |-> Date2, adults |-> Num(120),
         currency |-> Lit("CHF"), maxFlightHours |-> Num(50)]) }

\* the body of the normaliser runs, with a maxFlightHours
NormaliserBody(limit) ==
    Obj([origin |-> Str(<<"f","r","a">>), destination |-> Str(<<"J","F","K">>),
         departDate |-> Date1, adults |-> Num(20), maxFlightHours |-> limit])

\* the messages of the faults the runtime raises (a rejected fetch, a body
\* that is not JSON)
FaultMessages == {Lit("fetch failed")}

\* success answers of the token endpoint: two tokens of 120 s and 150 s, and
\* an answer with neither field
TokenAnswers == {
    Obj([access_token |-> Lit("tok-1"), expires_in |-> Num(1200)]),
    Obj([access_token |-> Lit("tok-2"), expires_in |-> Num(1500)]),
    Obj(<<>>) }

\* non-success answers of the token endpoint and of the offer search
ErrorAnswers == {
    [status |-> 429, txt |-> Str(<<>>)],
    [status |-> 500, txt |-> Lit("{\"errors\":[{\"code\":141}]}")] }

Seg(from, to, carrier) ==
    Obj([departure |-> Obj([iataCode |-> Lit(from), at |-> Lit("2025-06-01T08:00:00")]),
         arrival |-> Obj([iataCode |-> Lit(to), at |-> Lit("2025-06-01T10:30:00")]),
         carrierCode |-> carrier,
         number |-> Lit("1234")])

Iso(chars) == Str(chars)

PT2H30M == Iso(<<"P","T","2","H","3","0","M">>)
PT7H45M == Iso(<<"P","T","7","H","4","5","M">>)
PT12H == Iso(<<"P","T","1","2","H">>)
PT50M == Iso(<<"P","T","5","0","M">>)
P1D == Iso(<<"P","1","D","T","2","H">>)

\* one itinerary of 2.5 h, carrier LH validated by LH
OfferShort ==
    Obj([price |-> Obj([total |-> Lit("129.90"), currency |-> Lit("EUR")]),
         validatingAirlineCodes |-> Arr(<<Lit("LH")>>),
         itineraries |-> Arr(<<
            Obj([duration |-> PT2H30M,
                 segments |-> Arr(<<Seg("FRA", "PMI", Lit("LH"))>>)])>>)])

\* out 7.75 h (rounded 7.8) and back 12 h: 19.8 h, three carriers, no price
OfferLong ==
    Obj([validatingAirlineCodes |-> Arr(<<Lit("LX"), Lit("LH"), Lit("LX")>>),
         itineraries |-> Arr(<<
            Obj([duration |-> PT7H45M,
                 segments |-> Arr(<<Seg("ZRH", "FRA", Lit("LH")),
                                    Seg("FRA", "JFK", Lit("UA"))>>)]),
            Obj([duration |-> PT12H,
                 segments |-> Arr(<<Seg("JFK", "ZRH", Lit("LX"))>>)])>>)])

\* exactly 5.0 h: 50 minutes (0.8) + 2.5 + a duration that is not PT...
OfferFive ==
    Obj([price |-> Obj([total |-> Lit("88.00")]),
         itineraries |-> Arr(<<
            Obj([duration |-> PT50M, segments |-> Arr(<<Seg("MUC", "VIE", Lit("OS"))>>)]),
            Obj([duration |-> PT2H30M, segments |-> Arr(<<Seg("VIE", "MUC", Lit("OS"))>>)]),
            Obj([duration |-> Iso(<<"P","T","1","H","4","2","M">>)]),
            Obj([duration |-> P1D])>>)])

\* nested fields absent: no duration, no segments, a null segment, a segment
\* without carrier, a null itinerary
OfferSparse ==
    Obj([itineraries |-> Arr(<<
            Obj(<<>>),
            Null,
            Obj([duration |-> Null,
                 segments |-> Arr(<<Null, Obj([number |-> Lit("77")]),
                                    Seg("STR", "BER", Str(<<>>)),
                                    Seg("BER", "STR", Lit("EW"))>>)])>>)])

\* validating codes with an empty and a null entry
OfferEmptyCode ==
    Obj([validatingAirlineCodes |-> Arr(<<Str(<<>>), Lit("LH"), Null>>),
         itineraries |-> Arr(<<
            Obj([duration |-> PT2H30M,
                 segments |-> Arr(<<Seg("FRA", "PMI", Lit("LH"))>>)])>>)])

\* validating codes given as one string
OfferCodeString ==
    Obj([validatingAirlineCodes |-> Str(<<"L","H">>),
         itineraries |-> Arr(<<
            Obj([duration |-> PT2H30M,
                 segments |-> Arr(<<Seg("FRA", "PMI", Str(<<"L","X">>))>>)])>>)])

\* malformed nested fields: a duration in minutes as a number, segments and
\* itineraries that are objects, validating codes that are a number
OfferNumericDuration ==
    Obj([itineraries |-> Arr(<<Obj([duration |-> Num(900)])>>)])

OfferSegmentsObject ==
    Obj([itineraries |-> Arr(<<Obj([duration |-> PT12H, segments |-> Obj(<<>>)])>>)])

OfferItinerariesObject ==
    Obj([itineraries |-> Obj(<<>>)])

OfferNumericCodes ==
    Obj([validatingAirlineCodes |-> Num(10)])

WellFormedOffers == {OfferShort, OfferLong, OfferFive}

SparseOffers == {Null, Obj(<<>>), OfferSparse, OfferEmptyCode, OfferCodeString}

MalformedOffers ==
    {OfferNumericDuration, OfferSegmentsObject, OfferItinerariesObject, OfferNumericCodes}

RawOffers == WellFormedOffers \cup SparseOffers \cup MalformedOffers

\* success answers of the offer search, for the handler runs
SearchAnswers == {
    Obj([data |-> Arr(<<OfferLong, OfferFive, OfferShort>>)]),
    Obj([data |-> Arr(<<OfferShort, OfferNumericDuration>>)]) }

\* sequences over S of length at most k
RECURSIVE SeqsUpTo(_, _)
SeqsUpTo(S, k) ==
    IF k = 0 THEN {<<>>}
    ELSE LET shorter == SeqsUpTo(S, k - 1) IN
         shorter \cup {Append(q, x) : q \in {p \in shorter : Len(p) = k - 1}, x \in S}

\* success answers of the offer search, for the normaliser runs
NormaliserAnswers ==
    {Obj([data |-> Arr(offers)]) : offers \in SeqsUpTo(RawOffers, MaxOffers)}
        \cup {Obj(<<>>), Null, Obj([data |-> Lit("none")])}

\* maxFlightHours of the normaliser runs
HourLimits == {Undefined, Null, Num(0), Num(-10), Num(25), Num(50), Num(197), Num(198),
               Str(<<"5">>)}

-----------------------------------------------------------------------------
(* State *)

\* let tokenCache = { token: null, expiresAt: 0 }
EmptyCache == [token |-> Null, expiresAt |-> 0]

\* no exchange has written the cache yet
NoStore == [data |-> Undefined, at |-> 0]

\* an invocation slot with no POST in it.  pc is the await the invocation is
\* suspended at; loc, token, params and data are the handler's locals; res is
\* the response returned; log lists the steps taken; overwritten tells that
\* the cache was written after this invocation read it
Idle ==
    [pc |-> "idle", loc |-> NoLocals, token |-> Undefined, params |-> Undefined,
     data |-> Undefined, res |-> NoResponse, log |-> <<>>, overwritten |-> FALSE]

Init ==
    /\ now = 2 * MarginMs
    /\ tokenCache = EmptyCache
    /\ lastStore = NoStore
    /\ req = [r \in Requests |-> Idle]

\* return withCORS(res, ...): invocation `inv` ends with response res; its
\* token and params are gone
Respond(inv, res, steps) ==
    [inv EXCEPT !.pc = "done", !.res = res, !.token = Undefined,
                !.params = Undefined, !.log = @ \o steps \o <<"respond">>]

\* `await getAmadeusToken()` resumed with token: the parameters are built and
\* the offer search is fetched
SendSearch(inv, token, steps) ==
    [inv EXCEPT !.pc = "awaitSearch", !.token = token, !.params = Params(inv.loc),
                !.log = @ \o steps \o <<"search">>]

\* the synchronous run from the parsed body to the first fetch or the return:
\* destructuring, validation, whitelist, getAmadeusToken's cache test
AfterBody(inv, body, cache, t) ==
    LET loc == Locals(body)
        in == [inv EXCEPT !.loc = loc]
    IN  CASE DestructureThrows(body) ->
                Respond(inv, ServerErrorResponse(
                    Lit("Cannot destructure property 'origin' of null")), <<"fault">>)
          [] ~DestructureThrows(body) /\ MissingFields(loc) ->
                Respond(in, MissingFieldsResponse, <<"invalid">>)
          [] ~DestructureThrows(body) /\ ~MissingFields(loc) /\ ~OriginAllowed(loc) ->
                Respond(in, OriginNotAllowedResponse, <<"valid", "origin_rejected">>)
          [] OTHER ->
                IF CacheValid(cache, t)
                THEN SendSearch(in, cache.token, <<"valid", "origin_allowed", "cache_hit">>)
                ELSE [in EXCEPT !.pc = "awaitExchange", !.overwritten = FALSE,
                                !.log = <<"valid", "origin_allowed", "exchange">>]

\* the run after a successful offer search whose catch block adds the error
\* to the envelope built so far
AfterSearchPartial(inv, data, t) ==
    LET in == [inv EXCEPT !.data = data] IN
    IF ItemsFault(data) # ""
    THEN Respond(in,
                 JsonResponse(Obj([error |-> Lit("Server error"),
                                   details |-> Lit(ItemsFault(data)),
                                   results |-> Arr(<<>>)]), 500),
                 <<"search_ok", "fault">>)
    ELSE Respond(in, SuccessResponse(inv.loc, data, t), <<"search_ok", "normalized">>)

\* the run after a successful offer search with data at time t: normalise,
\* filter, answer; a fault of the normaliser goes to the catch block
AfterSearch(inv, data, t) ==
    LET in == [inv EXCEPT !.data = data] IN
    IF ItemsFault(data) # ""
    THEN Respond(in, ServerErrorResponse(Lit(ItemsFault(data))), <<"search_ok", "fault">>)
    ELSE Respond(in, SuccessResponse(inv.loc, data, t), <<"search_ok", "normalized">>)

-----------------------------------------------------------------------------
(* Steps of one POST invocation, from one await to the next *)

\* POST is called and suspends at `await request.json()`
Arrive(r) ==
    /\ req[r].pc = "idle"
    /\ req' = [req EXCEPT ![r].pc = "awaitBody"]
    /\ UNCHANGED <<now, tokenCache, lastStore>>

\* request.json() rejects: the catch block answers
BodyFault(r, message) ==
    /\ req[r].pc = "awaitBody"
    /\ req' = [req EXCEPT ![r] = Respond(@, ServerErrorResponse(message), <<"fault">>)]
    /\ UNCHANGED <<now, tokenCache, lastStore>>

\* request.json() resolves with body
BodyParsed(r, body) ==
    /\ req[r].pc = "awaitBody"
    /\ req' = [req EXCEPT ![r] = AfterBody(@, body, tokenCache, now)]
    /\ UNCHANGED <<now, tokenCache, lastStore>>

\* the token endpoint answers with success and data: the cache is written,
\* the token returned and the offer search fetched
ExchangeOk(r, data) ==
    /\ req[r].pc = "awaitExchange"
    /\ tokenCache' = StoreToken(data, now)
    /\ lastStore' = [data |-> data, at |-> now]
    /\ req' = [o \in Requests |->
                 IF o = r
                 THEN SendSearch(req[r], tokenCache'.token, <<"exchange_ok">>)
                 ELSE IF req[o].pc = "awaitExchange"
                      THEN [req[o] EXCEPT !.overwritten = TRUE]
                      ELSE req[o]]
    /\ UNCHANGED now

\* a refused exchange that is swallowed: the offer search goes out without
\* a token
ExchangeNotOkGoesOn(r, answer) ==
    /\ req[r].pc = "awaitExchange"
    /\ req' = [req EXCEPT ![r] = SendSearch(@, Undefined, <<"exchange_failed">>)]
    /\ UNCHANGED <<now, tokenCache, lastStore>>

\* a refused exchange that also resets the cache
ExchangeNotOkClearsCache(r, answer) ==
    /\ req[r].pc = "awaitExchange"
    /\ tokenCache' = EmptyCache
    /\ req' = [req EXCEPT ![r] =
                 Respond(@, ServerErrorResponse(OAuthFailedMessage(answer.txt)),
                         <<"exchange_failed">>)]
    /\ UNCHANGED <<now, lastStore>>

\* the token endpoint answers with a non-success status and a text
ExchangeNotOk(r, answer) ==
    /\ req[r].pc = "awaitExchange"
    /\ req' = [req EXCEPT ![r] =
                 Respond(@, ServerErrorResponse(OAuthFailedMessage(answer.txt)),
                         <<"exchange_failed">>)]
    /\ UNCHANGED <<now, tokenCache, lastStore>>

\* the fetch of the token endpoint rejects, or its body is not JSON
ExchangeFault(r, message) ==
    /\ req[r].pc = "awaitExchange"
    /\ req' = [req EXCEPT ![r] =
                 Respond(@, ServerErrorResponse(message), <<"exchange_fault">>)]
    /\ UNCHANGED <<now, tokenCache, lastStore>>

\* the offer search answers with a non-success status and a text
SearchNotOk(r, answer) ==
    /\ req[r].pc = "awaitSearch"
    /\ req' = [req EXCEPT ![r] =
                 Respond(@, ApiErrorResponse(answer.status, answer.txt),
                         <<"search_failed">>)]
    /\ UNCHANGED <<now, tokenCache, lastStore>>

\* the fetch of the offer search rejects, or its body is not JSON
SearchFault(r, message) ==
    /\ req[r].pc = "awaitSearch"
    /\ req' = [req EXCEPT ![r] =
                 Respond(@, ServerErrorResponse(message), <<"search_fault">>)]
    /\ UNCHANGED <<now, tokenCache, lastStore>>

\* the offer search answers with success and data
SearchOk(r, data) ==
    /\ req[r].pc = "awaitSearch"
    /\ req' = [req EXCEPT ![r] = AfterSearch(@, data, now)]
    /\ UNCHANGED <<now, tokenCache, lastStore>>

\* the response is delivered; the slot takes the next POST
Release(r) ==
    /\ req[r].pc = "done"
    /\ req' = [req EXCEPT ![r] = Idle]
    /\ UNCHANGED <<now, tokenCache, lastStore>>

\* time passes
Tick ==
    /\ now < 2 * MarginMs + MaxTicks * TickMs
    /\ now' = now + TickMs
    /\ UNCHANGED <<tokenCache, lastStore, req>>

Next ==
    \/ \E r \in Requests : Arrive(r)
    \/ \E r \in Requests, m \in FaultMessages : BodyFault(r, m)
    \/ \E r \in Requests, body \in Bodies : BodyParsed(r, body)
    \/ \E r \in Requests, data \in TokenAnswers : ExchangeOk(r, data)
    \/ \E r \in Requests, answer \in ErrorAnswers : ExchangeNotOk(r, answer)
    \/ \E r \in Requests, m \in FaultMessages : ExchangeFault(r, m)
    \/ \E r \in Requests, answer \in ErrorAnswers : SearchNotOk(r, answer)
    \/ \E r \in Requests, m \in FaultMessages : SearchFault(r, m)
    \/ \E r \in Requests, data \in SearchAnswers : SearchOk(r, data)
    \/ \E r \in Requests : Release(r)
    \/ Tick

Spec == Init /\ [][Next]_vars

-----------------------------------------------------------------------------
(* Normaliser runs: one invocation, suspended at the offer search after an  *)
(* exchange, receives each answer of NormaliserAnswers                      *)

InitNorm ==
    /\ now = 2 * MarginMs
    /\ \E answer \in TokenAnswers, limit \in HourLimits :
          /\ ~Falsy(Get(answer, "access_token"))
          /\ tokenCache = StoreToken(answer, now)
          /\ lastStore = [data |-> answer, at |-> now]
          /\ req = [r \in Requests |->
                      IF r = 1
                      THEN SendSearch(
                              [AfterBody([Idle EXCEPT !.pc = "awaitBody"],
                                         NormaliserBody(limit), EmptyCache, now)
                                 EXCEPT !.log = @ \o <<"exchange_ok">>],
                              tokenCache.token, <<>>)
                      ELSE Idle]

NextNorm == \E data \in NormaliserAnswers : SearchOk(1, data)

SpecNorm == InitNorm /\ [][NextNorm]_vars

-----------------------------------------------------------------------------
(* Properties: token cache *)

\* how often step occurs in log
Count(log, step) == Cardinality({i \in 1..Len(log) : log[i] = step})

Has(log, step) == Count(log, step) > 0

\* the step in which invocation r runs getAmadeusToken's cache test
Accesses(r) ==
    req[r].pc = "awaitBody" /\ req'[r].pc \in {"awaitSearch", "awaitExchange"}

\* C1: an access made while a token is cached and the time is more than 60 s
\* before the recorded expiry starts no credential exchange, returns the
\* cached token and leaves the cache alone; every other access starts exactly
\* one exchange; no invocation ever starts a second one.
CachedTokenReused ==
    [][\A r \in Requests :
          /\ Accesses(r) =>
                IF ~Falsy(tokenCache.token) /\ now + MarginMs < tokenCache.expiresAt
                THEN /\ Count(req'[r].log, "exchange") = 0
                     /\ req'[r].pc = "awaitSearch"
                     /\ req'[r].token = tokenCache.token
                     /\ tokenCache' = tokenCache
                ELSE /\ Count(req'[r].log, "exchange") = 1
                     /\ req'[r].pc = "awaitExchange"
                     /\ tokenCache' = tokenCache
          /\ Count(req'[r].log, "exchange") <= 1]_vars

\* one invocation reuses the cached token while the other, having found the
\* same token at the margin, waits for its exchange
CachedTokenReusedWitness ==
    \E r, o \in Requests :
        /\ req[r].pc = "awaitSearch"
        /\ Has(req[r].log, "cache_hit")
        /\ req[r].token = tokenCache.token
        /\ req[o].pc = "awaitExchange"
        /\ ~req[o].overwritten
        /\ now + MarginMs = tokenCache.expiresAt

\* the step in which invocation r's exchange is answered with a non-success
\* status
ExchangeRefused(r) ==
    /\ req[r].pc = "awaitExchange"
    /\ req'[r].pc = "done"
    /\ Has(req'[r].log, "exchange_failed")

\* C2: a credential exchange answered with a non-success status ends in an
\* error that carries the raw response text and leaves token and expiry of
\* the cache as they were; unless another invocation has written the cache
\* since this one read it, the cache is still not reusable, so the next
\* access exchanges again.
FailedExchangeKeepsCache ==
    [][\A r \in Requests :
          ExchangeRefused(r) =>
            /\ tokenCache' = tokenCache
            /\ \E answer \in ErrorAnswers :
                  Get(req'[r].res.body, "details")
                     = Str(<<"Amadeus OAuth failed: ">> \o answer.txt.s)
            /\ ~req[r].overwritten =>
                  (Falsy(tokenCache'.token) \/ now' + MarginMs >= tokenCache'.expiresAt)]_vars

\* an exchange was refused while the cache held an expired token
FailedExchangeKeepsCacheWitness ==
    \E r \in Requests :
        /\ req[r].pc = "done"
        /\ Has(req[r].log, "exchange_failed")
        /\ ~req[r].overwritten
        /\ ~Falsy(tokenCache.token)
        /\ Get(req[r].res.body, "details") # Lit("Amadeus OAuth failed: ")

\* seconds of lifetime the exchange that last wrote the cache declared
DeclaredSeconds ==
    IF Get(lastStore.data, "expires_in").t = "number"
    THEN Get(lastStore.data, "expires_in").n \div 10
    ELSE 0

\* C9: whenever the cache holds a token, token and expiry come from the same
\* exchange, the last one to complete: the expiry is its completion time plus
\* its declared lifetime in seconds times 1000.
TokenAndExpiryFromOneExchange ==
    ~Falsy(tokenCache.token) =>
        /\ tokenCache.token = Get(lastStore.data, "access_token")
        /\ tokenCache.expiresAt = lastStore.at + DeclaredSeconds * 1000

\* two refreshes raced: an invocation continues with the token of its own
\* exchange while the cache holds the token of a later one
TokenAndExpiryFromOneExchangeWitness ==
    \E r \in Requests :
        /\ req[r].pc = "awaitSearch"
        /\ Has(req[r].log, "exchange_ok")
        /\ ~Falsy(req[r].token)
        /\ ~Falsy(tokenCache.token)
        /\ req[r].token # tokenCache.token
        /\ lastStore.at > 2 * MarginMs

-----------------------------------------------------------------------------
(* Properties: POST handler *)

\* the origin of a body that passed the field validation, upper-cased and
\* cut to three characters, is outside the whitelist
OutsideWhitelist(inv) ==
    /\ inv.log # <<>>
    /\ inv.log[1] = "valid"
    /\ Slice0(ToUpperCase(String(inv.loc.origin)), 3) \notin DACH_IATA

\* C3: a POST that passes the field validation with an origin outside the
\* whitelist is answered 400 "Origin not allowed (DACH only)" whatever its
\* destination, in the step that read the body: without a credential
\* exchange, without an offer search, the token cache unchanged.
DisallowedOriginRejected ==
    [][\A r \in Requests :
          (req[r].pc = "awaitBody" /\ OutsideWhitelist(req'[r])) =>
            /\ req'[r].pc = "done"
            /\ req'[r].res.status = 400
            /\ req'[r].res.body = Obj([error |-> Lit("Origin not allowed (DACH only)")])
            /\ ~Has(req'[r].log, "exchange")
            /\ ~Has(req'[r].log, "search")
            /\ tokenCache' = tokenCache]_vars

\* an origin that only trimming would make an allowed one was rejected while
\* the cache held a token
DisallowedOriginRejectedWitness ==
    \E r \in Requests :
        /\ req[r].pc = "done"
        /\ OutsideWhitelist(req[r])
        /\ Trim(ToUpperCase(String(req[r].loc.origin))) \in DACH_IATA
        /\ ~Falsy(tokenCache.token)

Keys(body) == DOMAIN body.o

IsSuccessEnvelope(res) ==
    /\ res.body.t = "object"
    /\ Keys(res.body) = {"query", "fetchedAt", "count", "results"}

IsErrorEnvelope(res) ==
    /\ res.body.t = "object"
    /\ Keys(res.body) \in {{"error"}, {"error", "details"}}
    /\ Get(res.body, "error").t = "string"

FaultSteps == {"fault", "exchange_failed", "exchange_fault", "search_fault"}

Faulted(log) == \E i \in 1..Len(log) : log[i] \in FaultSteps

\* C4: a POST ends with exactly one response, the success envelope or the
\* error envelope {error, details?}, never both; an invocation that has not
\* ended has returned nothing; a fault at any step (body, destructuring,
\* exchange, offer search, normaliser) is answered 500 "Server error" with
\* the fault's message as details; an error response carries no results.
OneUniformResponse ==
    \A r \in Requests :
        /\ req[r].pc # "done" =>
              req[r].res = NoResponse /\ ~Has(req[r].log, "respond")
        /\ req[r].pc = "done" =>
              /\ Count(req[r].log, "respond") = 1
              /\ req[r].log[Len(req[r].log)] = "respond"
              /\ IsSuccessEnvelope(req[r].res) # IsErrorEnvelope(req[r].res)
              /\ IsSuccessEnvelope(req[r].res) <=> Has(req[r].log, "normalized")
              /\ Faulted(req[r].log) =>
                    /\ req[r].res.status = 500
                    /\ Keys(req[r].res.body) = {"error", "details"}
                    /\ Get(req[r].res.body, "error") = Lit("Server error")
                    /\ ~Falsy(Get(req[r].res.body, "details"))

\* one POST died in the normaliser, the other in the body parser
OneUniformResponseWitness ==
    \E r, o \in Requests :
        /\ req[r].pc = "done"
        /\ Has(req[r].log, "search_ok")
        /\ Has(req[r].log, "fault")
        /\ req[o].pc = "done"
        /\ req[o].log = <<"fault", "respond">>

\* C5: the status of an error response tells the kind of failure: 400 for
\* missing fields and for an origin outside the whitelist, the provider's
\* status with its text as details when the offer search answers with a
\* non-success status, 500 for a fault.
StatusByFailureKind ==
    \A r \in Requests :
        req[r].pc = "done" =>
            /\ Has(req[r].log, "invalid") =>
                  req[r].res.status = 400 /\ MissingFields(req[r].loc)
            /\ Has(req[r].log, "origin_rejected") => req[r].res.status = 400
            /\ Has(req[r].log, "search_failed") =>
                  \E answer \in ErrorAnswers :
                      /\ req[r].res.status = answer.status
                      /\ Get(req[r].res.body, "details") = answer.txt
                      /\ Get(req[r].res.body, "error") = Lit("Amadeus API error")
            /\ Faulted(req[r].log) => req[r].res.status = 500
            /\ req[r].res.status \in {400, 500} \cup {a.status : a \in ErrorAnswers}
                  <=> IsErrorEnvelope(req[r].res)

\* the provider's 429 was passed on by one POST while the other was refused
\* for its missing fields
StatusByFailureKindWitness ==
    \E r, o \in Requests :
        /\ req[r].pc = "done"
        /\ Has(req[r].log, "search_failed")
        /\ req[r].res.status = 429
        /\ req[o].pc = "done"
        /\ Has(req[o].log, "invalid")

\* the position of the first occurrence of step in log, 0 when there is none
Pos(log, step) ==
    IF Has(log, step) THEN CHOOSE i \in 1..Len(log) :
                              log[i] = step /\ \A j \in 1..(i - 1) : log[j] # step
    ELSE 0

\* C10: within one POST the steps run in order and at most once each: no
\* network call before validation and whitelist have passed, the offer
\* search only after a token was obtained (from the cache or from an
\* exchange that succeeded), and after a failed exchange nothing but the
\* error response: no offer search and no second exchange.
StepsInOrder ==
    \A r \in Requests :
        LET log == req[r].log IN
        /\ \A i \in 1..Len(log) : Count(log, log[i]) = 1
        /\ \A call \in {"exchange", "cache_hit", "search"} :
              Has(log, call) =>
                  /\ Pos(log, "valid") = 1
                  /\ Pos(log, "origin_allowed") = 2
                  /\ Pos(log, call) > 2
        /\ Has(log, "search") =>
              \/ Pos(log, "cache_hit") = Pos(log, "search") - 1
              \/ /\ Pos(log, "exchange_ok") = Pos(log, "search") - 1
                 /\ Pos(log, "exchange") = Pos(log, "exchange_ok") - 1
        /\ (Has(log, "exchange_failed") \/ Has(log, "exchange_fault")) =>
              /\ ~Has(log, "search")
              /\ ~Has(log, "exchange_ok")
              /\ Len(log) = Pos(log, "exchange") + 2
              /\ log[Len(log)] = "respond"
              /\ req[r].pc = "done"
              /\ IsErrorEnvelope(req[r].res)
        /\ (req[r].pc = "awaitSearch") <=> (log # <<>> /\ log[Len(log)] = "search")
        /\ (req[r].pc = "awaitExchange") <=> (log # <<>> /\ log[Len(log)] = "exchange")

\* one POST ended on a refused exchange, the other went through exchange and
\* offer search to its answer
StepsInOrderWitness ==
    \E r, o \in Requests :
        /\ req[r].pc = "done"
        /\ Has(req[r].log, "exchange_failed")
        /\ req[o].pc = "done"
        /\ req[o].log = <<"valid", "origin_allowed", "exchange", "exchange_ok",
                          "search", "search_ok", "normalized", "respond">>

-----------------------------------------------------------------------------
(* Properties: normaliser and filter *)

\* invocation r ended with the success envelope
Succeeded(r) == req[r].pc = "done" /\ IsSuccessEnvelope(req[r].res)

Results(r) == Get(req[r].res.body, "results").a

Total(item) == Get(item, "totalDurationHours").n

\* C6: in a success envelope, with a maxFlightHours above 0 the results are
\* the normalised offers of at most that total duration, all of them and no
\* other, in the provider's order; with maxFlightHours omitted, null, 0 or
\* negative the results are all normalised offers; count is the length of
\* results.
FilterByMaxFlightHours ==
    \A r \in Requests :
        Succeeded(r) =>
            LET limit == req[r].loc.maxFlightHours
                items == Items(req[r].data, req[r].loc.currency)
            IN  /\ (limit.t = "number" /\ limit.n > 0) =>
                      Results(r) = SelectSeq(items, LAMBDA x : Total(x) <= limit.n)
                /\ (limit.t \in {"undefined", "null"} \/ (limit.t = "number" /\ limit.n <= 0)) =>
                      Results(r) = items
                /\ Get(req[r].res.body, "count") = Num(10 * Len(Results(r)))

\* a limit of 5 hours kept an offer of exactly 5.0 hours and dropped a longer
\* one that came before it
FilterByMaxFlightHoursWitness ==
    \E r \in Requests :
        /\ Succeeded(r)
        /\ req[r].loc.maxFlightHours = Num(50)
        /\ Len(Items(req[r].data, req[r].loc.currency)) = 2
        /\ Total(Items(req[r].data, req[r].loc.currency)[1]) > 50
        /\ Len(Results(r)) = 1
        /\ Total(Results(r)[1]) = 50

\* C7: whatever the offers of the provider's data list hold, absent or
\* malformed nested fields included, the normaliser raises no fault and the
\* request ends with the success envelope.
NormaliserNeverFails ==
    \A r \in Requests :
        (/\ req[r].pc = "done"
         /\ Has(req[r].log, "search_ok")
         /\ Get(req[r].data, "data").t = "array") =>
            /\ ~Has(req[r].log, "fault")
            /\ IsSuccessEnvelope(req[r].res)

\* the entries the claimed airlines list is built from: the validating codes,
\* then the carrier code of every segment of every itinerary
RECURSIVE DeclaredCarriers(_)
DeclaredCarriers(its) ==
    IF its = <<>> THEN <<>>
    ELSE LET segs == IF Get(Head(its), "segments").t = "array"
                     THEN Get(Head(its), "segments").a ELSE <<>>
         IN  [i \in 1..Len(segs) |-> Get(segs[i], "carrierCode")]
                \o DeclaredCarriers(Tail(its))

DeclaredCodes(offer) ==
    (IF Get(offer, "validatingAirlineCodes").t = "array"
     THEN Get(offer, "validatingAirlineCodes").a ELSE <<>>)
    \o DeclaredCarriers(IF Get(offer, "itineraries").t = "array"
                        THEN Get(offer, "itineraries").a ELSE <<>>)

Present(v) == ~(v.t \in {"undefined", "null"} \/ (v.t = "string" /\ v.s = <<>>))

\* xs is ys without its absent and empty entries and without repetitions, in
\* the order of first occurrence
IsDistinctPresentOf(xs, ys) ==
    /\ \A i \in 1..Len(xs) : Present(xs[i])
    /\ \A i, j \in 1..Len(xs) : xs[i] = xs[j] => i = j
    /\ \A k \in 1..Len(ys) : Present(ys[k]) => \E i \in 1..Len(xs) : xs[i] = ys[k]
    /\ \A i \in 1..Len(xs) : \E k \in 1..Len(ys) :
          /\ ys[k] = xs[i]
          /\ \A j \in 1..(i - 1) : \E l \in 1..(k - 1) : ys[l] = xs[j]

\* C8: the airlines of a normalised offer are the validating codes followed
\* by the segments' carrier codes, without repetitions and without absent or
\* empty entries, whichever of the two lists they come from, in the order of
\* first occurrence.
AirlinesDropEmptyEntries ==
    \A r \in Requests :
        (/\ Succeeded(r)
         /\ ~FilterApplies(req[r].loc.maxFlightHours)) =>
            LET offers == Elems(Get(req[r].data, "data")) IN
            \A i \in 1..Len(offers) :
                Get(offers[i], "validatingAirlineCodes").t \in {"undefined", "null", "array"} =>
                    IsDistinctPresentOf(Get(Results(r)[i], "airlines").a,
                                        DeclaredCodes(offers[i]))

=============================================================================
